---------------------------- MODULE Spec2Model ----------------------------
(***************************************************************************)
(* A model of plover_tapey_tape.TapeyTape (src/plover_tapey_tape.py): the  *)
(* stroke-event state machine that writes one log line per stroke, with    *)
(* the right segment of a fingerspelling line withheld until the next      *)
(* event (or stop).                                                        *)
(*                                                                         *)
(* Texts are sequences of one-character strings.  Times are integers in    *)
(* hundredths of a second.  An optional value (Python's None, or an        *)
(* attribute not yet assigned) is the empty tuple None; a present value v  *)
(* is Some(v) = <<v>>.                                                     *)
(*                                                                         *)
(* The host (Plover's engine) calls start on an instance that is not       *)
(* running and stop on a running one, drops an instance whose start or     *)
(* stop raised, and calls on_stroked on every stroke for as long as the    *)
(* hook is connected.  An instance may be started again after stop.        *)
(* I/O faults are the failure of open in start and of the write in stop;   *)
(* a write of on_stroked fails only when there is no open file.            *)
(*                                                                         *)
(* Spec is the machine under this host, with a few configurations and      *)
(* events.  SpecHistory, SpecBar, SpecSteno and SpecFormat run the same     *)
(* handlers from the same initial state on one kind of input each, taken   *)
(* from a wider set: the snapshot, the elapsed time and the bar settings,  *)
(* the pressed keys, the output format.                                    *)
(***************************************************************************)
EXTENDS Integers, Sequences, FiniteSets, TLC

VARIABLES
    host,               \* the host's view of the instance: constructed, running, stopped, dropped
    hooked,             \* engine hook 'stroked' is connected to self.on_stroked
    file,               \* self.file: "none" (never assigned), "open" or "closed"
    log,                \* the file.write calls so far: [site, call, text, items]
    last_stroke_time,   \* self.last_stroke_time
    was_fingerspelling, \* self.was_fingerspelling
    items,              \* self.items (the saved field map)
    settings,           \* bar_time_unit, bar_max_width, output_style, left_format, right_format
    now,                \* the wall clock, datetime.now()
    translations,       \* engine.translator_state.translations at the last stroke
    stroke,             \* the last stroke delivered to on_stroked
    events,             \* the host events delivered so far, one per on_stroked call
    config,             \* the content of tapey_tape.json read by the last start
    last,               \* the last call and how it ended
    nev,                \* number of on_stroked calls so far
    nstarts,            \* number of start calls so far
    ncalls              \* number of calls of start, stop and on_stroked so far

vars == <<host, hooked, file, log, last_stroke_time, was_fingerspelling, items,
          settings, now, translations, stroke, events, config, last, nev, nstarts,
          ncalls>>

(***************************************************************************)
(* Bound of the model: the number of calls of start, stop and on_stroked.  *)
(***************************************************************************)
MaxCalls == 5

(***************************************************************************)
(* Optional values and texts.                                              *)
(***************************************************************************)
None == <<>>
Some(v) == <<v>>
Val(o) == o[1]

Whitespace == {" ", "\t", "\n", "\r"}

RECURSIVE Concat(_)
Concat(ss) == IF ss = <<>> THEN <<>> ELSE Head(ss) \o Concat(Tail(ss))

RECURSIVE Join(_, _)
Join(sep, ss) ==
    IF ss = <<>> THEN <<>>
    ELSE IF Len(ss) = 1 THEN ss[1]
    ELSE ss[1] \o sep \o Join(sep, Tail(ss))

\* c * n: n copies of the character c (none when n <= 0)
Repeat(c, n) == [i \in 1..n |-> c]

Min(a, b) == IF a < b THEN a ELSE b
Max(a, b) == IF a > b THEN a ELSE b

\* str.rstrip(): drop the trailing whitespace characters
RECURSIVE RStrip(_)
RStrip(s) ==
    IF s = <<>> THEN <<>>
    ELSE IF s[Len(s)] \in Whitespace THEN RStrip(SubSeq(s, 1, Len(s) - 1))
    ELSE s

\* str.rjust(width): pad with spaces on the left
RJust(s, width) == Repeat(" ", width - Len(s)) \o s

\* str.translate(SHOW_WHITESPACE)
ShowChar(c) ==
    IF c = "\n" THEN <<"\\", "n">>
    ELSE IF c = "\r" THEN <<"\\", "r">>
    ELSE IF c = "\t" THEN <<"\\", "t">>
    ELSE <<c>>

RECURSIVE SHOW_WHITESPACE(_)
SHOW_WHITESPACE(s) ==
    IF s = <<>> THEN <<>> ELSE ShowChar(Head(s)) \o SHOW_WHITESPACE(Tail(s))

(***************************************************************************)
(* expand: re.sub('%(.)', items.get(group(1), ''), format_string).  '.'    *)
(* does not match a newline, and a '%' that ends the string stays.         *)
(***************************************************************************)
ItemsGet(its, c) ==
    IF c = "b" THEN its.b
    ELSE IF c = "s" THEN its.s
    ELSE IF c = "t" THEN its.t
    ELSE IF c = "h" THEN its.h
    ELSE IF c = "%" THEN its.pct
    ELSE <<>>

RECURSIVE expand(_, _)
expand(format_string, its) ==
    IF format_string = <<>> THEN <<>>
    ELSE IF /\ format_string[1] = "%"
            /\ Len(format_string) >= 2
            /\ format_string[2] # "\n"
         THEN ItemsGet(its, format_string[2])
                 \o expand(SubSeq(format_string, 3, Len(format_string)), its)
    ELSE <<format_string[1]>> \o expand(Tail(format_string), its)

(***************************************************************************)
(* re.split(r'(\s*%h)', output_format, maxsplit=1): the leftmost match of  *)
(* a whitespace run followed by the two characters %h.                     *)
(***************************************************************************)
IsPctH(s, j) == j + 1 <= Len(s) /\ s[j] = "%" /\ s[j + 1] = "h"

\* a match of \s*%h starts at i: whitespace from i up to a %h
MatchAt(s, i) ==
    \E j \in i..Len(s) : IsPctH(s, j) /\ \A k \in i..(j - 1) : s[k] \in Whitespace

SplitFormat(output_format) ==
    LET starts == {i \in 1..Len(output_format) : MatchAt(output_format, i)}
    IN  IF starts = {} THEN [left |-> output_format, right |-> <<>>]
        ELSE LET i == CHOOSE m \in starts : \A n \in starts : m <= n
             IN  [left  |-> SubSeq(output_format, 1, i - 1),
                  right |-> SubSeq(output_format, i, Len(output_format))]

(***************************************************************************)
(* The host's steno system (plover.system): the key slots in order, the    *)
(* number key, and the letter -> number aliases.  A reduced layout.        *)
(***************************************************************************)
NUMBER_KEY == <<"#">>

KEYS == << <<"#">>, <<"S", "-">>, <<"T", "-">>, <<"A", "-">>, <<"*">>, <<"-", "T">> >>

NUMBERS == { << <<"S", "-">>, <<"1", "-">> >>,
             << <<"T", "-">>, <<"2", "-">> >>,
             << <<"-", "T">>, <<"-", "9">> >> }

\* self.numbers = {number: letter for letter, number in NUMBERS.items()}
numbers == { <<p[2], p[1]>> : p \in NUMBERS }

InNumbers(key) == \E p \in numbers : p[1] = key
NumbersGet(key) == (CHOOSE p \in numbers : p[1] = key)[2]

\* key.strip('-')
RECURSIVE LStripDash(_)
LStripDash(k) == IF k # <<>> /\ Head(k) = "-" THEN LStripDash(Tail(k)) ELSE k

RECURSIVE RStripDash(_)
RStripDash(k) ==
    IF k # <<>> /\ k[Len(k)] = "-" THEN RStripDash(SubSeq(k, 1, Len(k) - 1)) ELSE k

StripDash(k) == RStripDash(LStripDash(k))

\* a variant that adds the letter of a number but not the number key
ExpandKeys_NoNumberKey(steno_keys) ==
    UNION { IF InNumbers(key) THEN {NumbersGet(key)} ELSE {key} : key \in steno_keys }

\* the expanded key set of a stroke
ExpandKeys(steno_keys) ==
    UNION { IF InNumbers(key) THEN {NumbersGet(key), NUMBER_KEY} ELSE {key}
            : key \in steno_keys }

Steno(steno_keys) ==
    LET keys == ExpandKeys(steno_keys)
    IN  Concat([i \in 1..Len(KEYS) |->
                   IF KEYS[i] \in keys THEN StripDash(KEYS[i]) ELSE <<" ">>])

(***************************************************************************)
(* The bar: min(int(seconds / bar_time_unit), bar_max_width) markers,      *)
(* right-justified.  Times and the unit are in hundredths of a second.     *)
(***************************************************************************)
Seconds(lst, t) == IF lst = None THEN 0 ELSE t - Val(lst)

\* a variant without the clamp to bar_max_width
BarWidth_Unclamped(seconds, bar_time_unit, bar_max_width) == seconds \div bar_time_unit

BarWidth(seconds, bar_time_unit, bar_max_width) ==
    Min(seconds \div bar_time_unit, bar_max_width)

Bar(seconds, bar_time_unit, bar_max_width) ==
    RJust(Repeat("+", BarWidth(seconds, bar_time_unit, bar_max_width)), bar_max_width)

(***************************************************************************)
(* History entries.  A translation has rtfcre and strokes (the chords that *)
(* produced it), english (the raw definition, or None), formatting (a list *)
(* of actions with text, glue and prev_attach) and replaced (the entries   *)
(* it replaced).                                                           *)
(***************************************************************************)
AnyOf(bs) == \E i \in 1..Len(bs) : bs[i]
AllOf(bs) == \A i \in 1..Len(bs) : bs[i]

IsSpace(text) == text # <<>> /\ \A i \in 1..Len(text) : text[i] \in Whitespace

is_fingerspelling(translation) ==
    AnyOf([i \in 1..Len(translation.formatting) |-> translation.formatting[i].glue])

is_whitespace(translation) ==
    AllOf([i \in 1..Len(translation.formatting) |->
            LET action == translation.formatting[i]
            IN  action.text = None \/ Val(action.text) = <<>> \/ IsSpace(Val(action.text))])

\* RetroFormatter(translations).last_fragments(0), joined: the text of the
\* actions, each preceded by a space unless it attaches to what precedes it
ActionText(action) ==
    IF action.text = None THEN <<>>
    ELSE (IF action.prev_attach THEN <<>> ELSE <<" ">>) \o Val(action.text)

EntryText(translation) ==
    Concat([i \in 1..Len(translation.formatting) |-> ActionText(translation.formatting[i])])

retroformat(ts) == Concat([i \in 1..Len(ts) |-> EntryText(ts[i])])

(***************************************************************************)
(* Suggestions.  The engine's lookup is a fixed dictionary from rendered   *)
(* text to suggestions, each with a steno_list of outlines (an outline is  *)
(* a sequence of strokes, a stroke a text).                                *)
(***************************************************************************)
Dictionary ==
    { << <<" ", "f">>,
         << [steno_list |-> << << <<"T", "P", "*">> >> >>] >> >>,
      << <<" ", "c", "a", "t">>,
         << [steno_list |-> << << <<"K", "A", "T">> >>,
                               << <<"K">>, <<"A", "T">> >> >>] >> >>,
      << <<" ", "c", "a", "t", " ", "f">>,
         << [steno_list |-> << << <<"K", "A", "F">> >> >>] >> >>,
      << <<" ", "f", "o">>,
         << [steno_list |-> << << <<"T", "P", "O">> >>,
                               << <<"T", "P", "*">>, <<"O", "*">> >> >>] >> >>,
      << <<" ", "c", "a", "t", " ", "f", "o">>,
         << [steno_list |-> << << <<"K", "A", "T">>, <<"T", "P", "O">> >> >>],
            [steno_list |-> << << <<"K", "A", "F", "O">> >> >>] >> >> }

\* self.engine.get_suggestions(text)
EngineGetSuggestions(text) ==
    IF \E e \in Dictionary : e[1] = text
    THEN (CHOOSE e \in Dictionary : e[1] = text)[2]
    ELSE <<>>

RECURSIVE SumLen(_)
SumLen(ts) == IF ts = <<>> THEN 0 ELSE Len(Head(ts).rtfcre) + SumLen(Tail(ts))

\* a variant that also keeps the outlines as long as the window
get_suggestions_NotLonger(ts) ==
    LET text         == retroformat(ts)
        stroke_count == SumLen(ts)
        found        == EngineGetSuggestions(text)
        outlines     == Concat([i \in 1..Len(found) |-> found[i].steno_list])
        NotLonger(outline) == Len(outline) <= stroke_count
    IN  SelectSeq(outlines, NotLonger)

get_suggestions(ts) ==
    LET text         == retroformat(ts)
        stroke_count == SumLen(ts)
        found        == EngineGetSuggestions(text)
        outlines     == Concat([i \in 1..Len(found) |-> found[i].steno_list])
        Shorter(outline) == Len(outline) < stroke_count
    IN  SelectSeq(outlines, Shorter)

Reverse(q) == [i \in 1..Len(q) |-> q[Len(q) + 1 - i]]

\* a variant that puts the buffer in front as it is (newest entry first)
ExtendLeft_AsBuffered(deque, buffer) == buffer \o deque

\* deque.extendleft(buffer): the elements are pushed on the left one by one
ExtendLeft(deque, buffer) == Reverse(buffer) \o deque

(***************************************************************************)
(* The backward scan of on_stroked: Scan visits translations[i] for i from *)
(* the newest down to 1 and returns the windows (deques) passed to         *)
(* get_suggestions, in the order of the calls.                             *)
(***************************************************************************)
RECURSIVE Scan(_, _, _, _, _)
Scan(ts, i, buffer, deque, windows) ==
    IF i = 0
    THEN IF buffer # <<>>
         THEN Append(windows, ExtendLeft(deque, buffer))
         ELSE windows
    ELSE LET translation == ts[i]
         IN  IF is_fingerspelling(translation)
             THEN Scan(ts, i - 1, Append(buffer, translation), deque, windows)
             ELSE LET deque1   == IF buffer # <<>> THEN ExtendLeft(deque, buffer) ELSE deque
                      windows1 == IF buffer # <<>> THEN Append(windows, deque1) ELSE windows
                      deque2   == <<translation>> \o deque1
                      windows2 == IF ~is_whitespace(translation)
                                  THEN Append(windows1, deque2) ELSE windows1
                  IN  Scan(ts, i - 1, <<>>, deque2, windows2)

\* a variant that scans whatever the newest entry is
ScanWindows_Unguarded(ts) == Scan(ts, Len(ts), <<>>, <<>>, <<>>)

ScanWindows(ts) ==
    IF ~is_whitespace(ts[Len(ts)]) THEN Scan(ts, Len(ts), <<>>, <<>>, <<>>) ELSE <<>>

\* the list suggestions before it is rendered: one list of outlines per lookup
SuggestionLists(ts) ==
    LET windows == ScanWindows(ts)
    IN  [i \in 1..Len(windows) |-> get_suggestions(windows[i])]

\* '>' * i + ' '.join(map('/'.join, outlines))
Tier(i, outlines) ==
    Repeat(">", i)
        \o Join(<<" ">>, [k \in 1..Len(outlines) |-> Join(<<"/">>, outlines[k])])

RECURSIVE TiersFrom(_, _)
TiersFrom(lists, i) ==
    IF i > Len(lists) THEN <<>>
    ELSE (IF lists[i] # <<>> THEN <<Tier(i, lists[i])>> ELSE <<>>)
             \o TiersFrom(lists, i + 1)

\* a variant that numbers the tiers after the empty ones are dropped
RenderSuggestions_Renumbered(lists) ==
    LET HasResults(outlines) == outlines # <<>>
    IN  Join(<<" ">>, TiersFrom(SelectSeq(lists, HasResults), 1))

RenderSuggestions(lists) == Join(<<" ">>, TiersFrom(lists, 1))

(***************************************************************************)
(* The output text and the hint of an event (the branch of on_stroked on   *)
(* the event kind).                                                        *)
(***************************************************************************)
Newest(ts) == ts[Len(ts)]

\* a variant without the placeholder for an entry that has no raw definition
Output_NoPlaceholder(is_correction, ts, output_style) ==
    IF is_correction \/ ts = <<>> THEN <<"*">>
    ELSE LET star      == IF Len(Newest(ts).strokes) > 1 THEN <<"*">> ELSE <<>>
             formatted == IF output_style = "translation"
                          THEN retroformat(<<Newest(ts)>>)
                          ELSE IF Newest(ts).english = None THEN <<>>
                               ELSE Val(Newest(ts).english)
         IN  star \o SHOW_WHITESPACE(formatted)

Output(is_correction, ts, output_style) ==
    IF is_correction \/ ts = <<>> THEN <<"*">>
    ELSE LET star      == IF Len(Newest(ts).strokes) > 1 THEN <<"*">> ELSE <<>>
             formatted == IF output_style = "translation"
                          THEN retroformat(<<Newest(ts)>>)
                          ELSE IF Newest(ts).english = None THEN <<"/">>
                               ELSE Val(Newest(ts).english)
         IN  star \o SHOW_WHITESPACE(formatted)

\* a variant that looks suggestions up on a correction stroke too
Suggestions_OnCorrection(is_correction, ts) ==
    IF ts = <<>> THEN <<>> ELSE RenderSuggestions(SuggestionLists(ts))

Suggestions(is_correction, ts) ==
    IF is_correction \/ ts = <<>> THEN <<>>
    ELSE RenderSuggestions(SuggestionLists(ts))

\* a variant that tracks fingerspelling on a correction stroke too
NewWasFingerspelling_OnCorrection(is_correction, ts) ==
    IF ts = <<>> THEN FALSE ELSE is_fingerspelling(Newest(ts))

NewWasFingerspelling(is_correction, ts) ==
    IF is_correction \/ ts = <<>> THEN FALSE ELSE is_fingerspelling(Newest(ts))

(***************************************************************************)
(* Configuration.  The config file is missing, is not JSON (invalid), or   *)
(* holds a JSON value: an object with fields, or some other value.  A      *)
(* field's value is a number (n, in hundredths), a string (s), null or a   *)
(* list.                                                                   *)
(***************************************************************************)
DefaultBarTimeUnit == 20
MinBarTimeUnit == 1
DefaultBarMaxWidth == 5
MaxBarMaxWidth == 100
DefaultOutputFormat ==
    <<"%", "b", " ", "|", "%", "s", "|", " ", "%", "t", " ", " ", "%", "h">>

TRANSLATION == <<"t", "r", "a", "n", "s", "l", "a", "t", "i", "o", "n">>

JNum(n) == [k |-> "num", n |-> n, s |-> <<>>]
JStr(s) == [k |-> "str", n |-> 0, s |-> s]
JNull == [k |-> "null", n |-> 0, s |-> <<>>]
JList == [k |-> "list", n |-> 0, s |-> <<>>]

HasField(cfg, name) == \E p \in cfg.fields : p[1] = name
Field(cfg, name) == (CHOOSE p \in cfg.fields : p[1] = name)[2]

\* the strings float() and int() accept, with their values
FloatStrings == { << <<"0", ".", "5">>, 50 >>, << <<"3">>, 300 >> }
IntStrings == { << <<"3">>, 3 >> }

Parses(table, str) == \E p \in table : p[1] = str
Parsed(table, str) == (CHOOSE p \in table : p[1] = str)[2]

\* int() of a number truncates toward zero
Trunc(n) == IF n >= 0 THEN n \div 100 ELSE -((-n) \div 100)

\* The outcome of a try block: "ok" with a value, "default" when the except
\* clause (KeyError, ValueError) ran, "raise" when the exception escapes.
ReadFloat(cfg) ==
    IF cfg.file = "other" THEN [r |-> "raise", v |-> 0]
    ELSE IF ~HasField(cfg, "bar_time_unit") THEN [r |-> "default", v |-> 0]
    ELSE LET val == Field(cfg, "bar_time_unit")
         IN  IF val.k = "num" THEN [r |-> "ok", v |-> val.n]
             ELSE IF val.k = "str"
                  THEN IF Parses(FloatStrings, val.s)
                       THEN [r |-> "ok", v |-> Parsed(FloatStrings, val.s)]
                       ELSE [r |-> "default", v |-> 0]
             ELSE [r |-> "raise", v |-> 0]

ReadInt(cfg) ==
    IF cfg.file = "other" THEN [r |-> "raise", v |-> 0]
    ELSE IF ~HasField(cfg, "bar_max_width") THEN [r |-> "default", v |-> 0]
    ELSE LET val == Field(cfg, "bar_max_width")
         IN  IF val.k = "num" THEN [r |-> "ok", v |-> Trunc(val.n)]
             ELSE IF val.k = "str"
                  THEN IF Parses(IntStrings, val.s)
                       THEN [r |-> "ok", v |-> Parsed(IntStrings, val.s)]
                       ELSE [r |-> "default", v |-> 0]
             ELSE [r |-> "raise", v |-> 0]

BarTimeUnitOf(cfg) ==
    IF ReadFloat(cfg).r = "ok" THEN Max(ReadFloat(cfg).v, MinBarTimeUnit)
    ELSE DefaultBarTimeUnit

BarMaxWidthOf(cfg) ==
    IF ReadInt(cfg).r = "ok" THEN Min(Max(ReadInt(cfg).v, 0), MaxBarMaxWidth)
    ELSE DefaultBarMaxWidth

OutputStyleOf(cfg) ==
    IF /\ HasField(cfg, "output_style")
       /\ Field(cfg, "output_style").k = "str"
       /\ Field(cfg, "output_style").s = TRANSLATION
    THEN "translation" ELSE "definition"

OutputFormatOf(cfg) ==
    IF HasField(cfg, "output_format") /\ Field(cfg, "output_format").k = "str"
    THEN Field(cfg, "output_format").s ELSE DefaultOutputFormat

\* json.load: a missing file gives {}, a file that is not JSON raises
LoadRaises(cfg) == cfg.file = "invalid"

\* where start raises while it reads the configuration: "load", "bar_time_unit",
\* "bar_max_width", or "no" when it reads all of it
ConfigRaise(cfg) ==
    IF LoadRaises(cfg) THEN "load"
    ELSE IF ReadFloat(cfg).r = "raise" THEN "bar_time_unit"
    ELSE IF ReadInt(cfg).r = "raise" THEN "bar_max_width"
    ELSE "no"

\* the attributes start has assigned when it raises at `at` or reads all ("no")
SettingsAfter(old, cfg, at) ==
    IF at = "load" \/ at = "bar_time_unit" THEN old
    ELSE IF at = "bar_max_width"
         THEN [old EXCEPT !.bar_time_unit = Some(BarTimeUnitOf(cfg))]
    ELSE [bar_time_unit |-> Some(BarTimeUnitOf(cfg)),
          bar_max_width |-> Some(BarMaxWidthOf(cfg)),
          output_style  |-> Some(OutputStyleOf(cfg)),
          left_format   |-> Some(SplitFormat(OutputFormatOf(cfg)).left),
          right_format  |-> Some(SplitFormat(OutputFormatOf(cfg)).right)]

NoSettings ==
    [bar_time_unit |-> None, bar_max_width |-> None, output_style |-> None,
     left_format |-> None, right_format |-> None]

(***************************************************************************)
(* The inputs of the model: the config files start may find, and the host  *)
(* events (a stroke, the translation stack it leaves, and the time since   *)
(* the previous stroke).                                                   *)
(***************************************************************************)
Configs ==
    { [file |-> "missing", fields |-> {}],
      [file |-> "invalid", fields |-> {}],
      [file |-> "other",   fields |-> {}],
      [file |-> "object",  fields |-> { <<"bar_time_unit", JNull>> }],
      [file |-> "object",  fields |-> { <<"bar_max_width", JList>> }],
      [file |-> "object",
       fields |-> { <<"bar_time_unit", JStr(<<"a", "b", "c">>)>>,
                    <<"bar_max_width", JNum(250)>>,
                    <<"output_style",  JStr(TRANSLATION)>>,
                    <<"output_format", JStr(<<"%", "t", " ", "%", "h", "|", "%", "b">>)>> }] }

Act(text, glue, prev_attach) == [text |-> text, glue |-> glue, prev_attach |-> prev_attach]

Tr(rtfcre, english, formatting, replaced) ==
    [rtfcre |-> rtfcre, strokes |-> rtfcre, english |-> english,
     formatting |-> formatting, replaced |-> replaced]

\* a word, two fingerspelled letters, a two-stroke definition that merges the
\* letters (it replaces them), an untranslated chord, and a glued action
\* without text
TrCat == Tr(<< <<"K", "A", "T">> >>, Some(<<"c", "a", "t">>),
            <<Act(Some(<<"c", "a", "t">>), FALSE, FALSE)>>, <<>>)
TrF == Tr(<< <<"T", "P", "*">> >>, Some(<<"{", "&", "f", "}">>),
            <<Act(Some(<<"f">>), TRUE, FALSE)>>, <<>>)
TrO == Tr(<< <<"O", "*">> >>, Some(<<"{", "&", "o", "}">>),
            <<Act(Some(<<"o">>), TRUE, TRUE)>>, <<>>)
TrFo == Tr(<< <<"T", "P", "*">>, <<"O", "*">> >>, Some(<<"f", "o", "\t">>),
            <<Act(Some(<<"f", "o">>), FALSE, FALSE)>>, << <<"T", "P", "*">> >>)
TrRaw == Tr(<< <<"K", "A", "F">> >>, None,
            <<Act(Some(<<"K", "A", "F">>), FALSE, FALSE)>>, <<>>)
TrGlue == Tr(<< <<"T", "*">> >>, Some(<<"{", "&", "}">>),
            <<Act(None, TRUE, FALSE)>>, <<>>)

Ev(steno_keys, is_correction, ts, dt) ==
    [steno_keys |-> steno_keys, is_correction |-> is_correction,
     translations |-> ts, dt |-> dt]

HostEvents ==
    { Ev({<<"S", "-">>, <<"A", "-">>, <<"-", "T">>}, FALSE, <<TrCat>>, 30),
      Ev({<<"T", "-">>, <<"*">>},           FALSE, <<TrCat, TrF>>, 30),
      Ev({<<"A", "-">>, <<"*">>},           FALSE, <<TrCat, TrF, TrO>>, 50),
      Ev({<<"S", "-">>, <<"A", "-">>},      FALSE, <<TrCat, TrF, TrO, TrCat>>, 130),
      Ev({<<"A", "-">>, <<"*">>},           FALSE, <<TrCat, TrFo>>, 30),
      Ev({<<"*">>},                         TRUE,  <<TrCat, TrF>>, 30),
      Ev({<<"1", "-">>},                    FALSE, <<>>, 0),
      Ev({<<"A", "-">>, <<"-", "9">>},      FALSE, <<TrGlue, TrRaw>>, 30) }

(***************************************************************************)
(* The state after construction (__init__): no hook, no file, no field map *)
(* and no settings yet.                                                    *)
(***************************************************************************)
NoStroke == [steno_keys |-> {}, is_correction |-> FALSE]
NoConfig == [file |-> "missing", fields |-> {}]

\* a variant that is constructed with a right segment pending
Init_Pending ==
    /\ host = "constructed"
    /\ hooked = FALSE
    /\ file = "none"
    /\ log = <<>>
    /\ last_stroke_time = None
    /\ was_fingerspelling = TRUE
    /\ items = None
    /\ settings = NoSettings
    /\ now = 0
    /\ translations = <<>>
    /\ stroke = NoStroke
    /\ events = <<>>
    /\ config = NoConfig
    /\ last = "init"
    /\ nev = 0
    /\ nstarts = 0
    /\ ncalls = 0

Init ==
    /\ host = "constructed"
    /\ hooked = FALSE
    /\ file = "none"
    /\ log = <<>>
    /\ last_stroke_time = None
    /\ was_fingerspelling = FALSE
    /\ items = None
    /\ settings = NoSettings
    /\ now = 0
    /\ translations = <<>>
    /\ stroke = NoStroke
    /\ events = <<>>
    /\ config = NoConfig
    /\ last = "init"
    /\ nev = 0
    /\ nstarts = 0
    /\ ncalls = 0

(***************************************************************************)
(* start.  The host calls it on an instance that is not running.  It reads *)
(* the configuration, connects the hook and then opens the log file; an    *)
(* exception leaves what was assigned before it, and the host drops the    *)
(* instance.                                                               *)
(***************************************************************************)
CanStart == host \in {"constructed", "stopped"} /\ ncalls < MaxCalls

\* start with the config file cfg, when nothing raises
StartOn(cfg) ==
    /\ host \in {"constructed", "stopped"}
    /\ ConfigRaise(cfg) = "no"
    /\ config' = cfg
    /\ settings' = SettingsAfter(settings, cfg, "no")
    /\ hooked' = TRUE
    /\ file' = "open"
    /\ host' = "running"
    /\ last' = "start"
    /\ nstarts' = nstarts + 1
    /\ ncalls' = ncalls + 1
    /\ UNCHANGED <<log, last_stroke_time, was_fingerspelling, items, now,
                   translations, stroke, events, nev>>

Start == \E cfg \in Configs : CanStart /\ StartOn(cfg)

\* json.load, float() or int() raises an exception start does not catch
StartConfigRaises ==
    \E cfg \in Configs :
        /\ CanStart
        /\ ConfigRaise(cfg) # "no"
        /\ config' = cfg
        /\ settings' = SettingsAfter(settings, cfg, ConfigRaise(cfg))
        /\ host' = "dropped"
        /\ last' = "start_config_raised"
        /\ nstarts' = nstarts + 1
        /\ ncalls' = ncalls + 1
        /\ UNCHANGED <<hooked, file, log, last_stroke_time, was_fingerspelling,
                       items, now, translations, stroke, events, nev>>

\* open('a') raises (OSError): the hook is already connected
StartOpenRaises ==
    \E cfg \in Configs :
        /\ CanStart
        /\ ConfigRaise(cfg) = "no"
        /\ config' = cfg
        /\ settings' = SettingsAfter(settings, cfg, "no")
        /\ hooked' = TRUE
        /\ host' = "dropped"
        /\ last' = "start_open_raised"
        /\ nstarts' = nstarts + 1
        /\ ncalls' = ncalls + 1
        /\ UNCHANGED <<file, log, last_stroke_time, was_fingerspelling, items,
                       now, translations, stroke, events, nev>>

(***************************************************************************)
(* The log is the sequence of file.write calls: the line of the source     *)
(* that wrote (site), the number of the on_stroked call it was written in  *)
(* (for stop: the number of calls so far), the lifetime (the number of the *)
(* start), the text written and the field map that was expanded.           *)
(***************************************************************************)
Write(site, call, text, its) ==
    [site |-> site, call |-> call, life |-> nstarts, text |-> text, items |-> its]

LineBreak == <<"\n">>

RightText(its) == RStrip(expand(Val(settings.right_format), its))
LeftText(its) == expand(Val(settings.left_format), its)

\* a variant that suppresses the hint when the newest entry is not fingerspelling
TurningPoint_NotFingerspelling(is_correction, ts) ==
    \/ ts = <<>>
    \/ ~is_fingerspelling(Newest(ts))
    \/ is_correction
    \/ Newest(ts).replaced # <<>>

\* a variant that does not look at the replaced list
TurningPoint_NoReplaced(is_correction, ts) ==
    \/ ts = <<>>
    \/ is_fingerspelling(Newest(ts))
    \/ is_correction

\* a variant that does not look at whether the newest entry is fingerspelling
TurningPoint_NoRun(is_correction, ts) ==
    \/ ts = <<>>
    \/ is_correction
    \/ Newest(ts).replaced # <<>>

\* the condition under which the delayed hint is suppressed
TurningPoint(is_correction, ts) ==
    \/ ts = <<>>
    \/ is_fingerspelling(Newest(ts))
    \/ is_correction
    \/ Newest(ts).replaced # <<>>

\* a variant that never suppresses the delayed hint
Delayed_Never(its, is_correction, ts) == its

\* self.items as the delayed write of on_stroked leaves it
Delayed(its, is_correction, ts) ==
    IF TurningPoint(is_correction, ts) THEN [its EXCEPT !.h = <<>>] ELSE its

\* self.items as this event assigns it
NewItems(e, t) ==
    [b   |-> Bar(Seconds(last_stroke_time, t),
                 Val(settings.bar_time_unit), Val(settings.bar_max_width)),
     s   |-> Steno(e.steno_keys),
     t   |-> Output(e.is_correction, e.translations, Val(settings.output_style)),
     h   |-> Suggestions(e.is_correction, e.translations),
     pct |-> <<"%">>]

(***************************************************************************)
(* stop.  The host calls it on a running instance.                         *)
(***************************************************************************)
\* a variant that suppresses the hint of the segment it flushes
Flushed_Redacted(its) ==
    <<Write("L82", nev, RightText([its EXCEPT !.h = <<>>]), [its EXCEPT !.h = <<>>]),
      Write("L83", nev, LineBreak, its)>>

\* the writes of stop when a right segment is withheld
Flushed(its) ==
    <<Write("L82", nev, RightText(its), its), Write("L83", nev, LineBreak, its)>>

Stop ==
    /\ host = "running"
    /\ ncalls < MaxCalls
    /\ ncalls' = ncalls + 1
    /\ log' = log \o (IF was_fingerspelling THEN Flushed(Val(items)) ELSE <<>>)
    /\ hooked' = FALSE
    /\ file' = "closed"
    /\ host' = "stopped"
    /\ last' = "stop"
    /\ UNCHANGED <<last_stroke_time, was_fingerspelling, items, settings, now,
                   translations, stroke, events, config, nev, nstarts>>

\* the write of the withheld right segment raises (an I/O error): stop ends
\* before hook_disconnect and close, and the host drops the instance
StopWriteRaises ==
    /\ host = "running"
    /\ ncalls < MaxCalls
    /\ ncalls' = ncalls + 1
    /\ was_fingerspelling
    /\ host' = "dropped"
    /\ last' = "stop_raised"
    /\ UNCHANGED <<hooked, file, log, last_stroke_time, was_fingerspelling, items,
                   settings, now, translations, stroke, events, config, nev, nstarts>>

(***************************************************************************)
(* on_stroked.  The engine calls it on every stroke while the hook is      *)
(* connected.  With an open file the call completes; it reads self.items   *)
(* in the delayed write only when was_fingerspelling is set.               *)
(***************************************************************************)
\* on_stroked with the host event e
OnStrokedEvent(e) ==
        LET t   == now + e.dt
            old == Delayed(Val(items), e.is_correction, e.translations)
            new == NewItems(e, t)
            wf  == NewWasFingerspelling(e.is_correction, e.translations)
            n   == nev + 1
        IN  /\ hooked
            /\ file = "open"
            /\ ncalls' = ncalls + 1
            /\ translations' = e.translations
            /\ events' = Append(events, e)
            /\ stroke' = [steno_keys |-> e.steno_keys, is_correction |-> e.is_correction]
            /\ now' = t
            /\ last_stroke_time' = Some(t)
            /\ was_fingerspelling' = wf
            /\ items' = Some(new)
            /\ log' = log
                  \o (IF was_fingerspelling
                      THEN <<Write("L141", n, RightText(old), old),
                             Write("L142", n, LineBreak, old)>>
                      ELSE <<>>)
                  \o <<Write("L240", n, LeftText(new), new)>>
                  \o (IF ~wf
                      THEN <<Write("L243", n, RightText(new), new),
                             Write("L244", n, LineBreak, new)>>
                      ELSE <<>>)
            /\ last' = "on_stroked"
            /\ nev' = n
            /\ UNCHANGED <<host, hooked, file, settings, config, nstarts>>

OnStroked == \E e \in HostEvents : ncalls < MaxCalls /\ OnStrokedEvent(e)

\* There is no open file (start raised in open): the first write raises.  The
\* delayed write comes first, after the hint was suppressed; otherwise the write
\* of the left segment raises, after the state of the event was assigned.
OnStrokedRaises ==
    \E e \in HostEvents :
        LET t == now + e.dt
        IN  /\ hooked
            /\ file # "open"
            /\ ncalls < MaxCalls
            /\ ncalls' = ncalls + 1
            /\ translations' = e.translations
            /\ events' = Append(events, e)
            /\ stroke' = [steno_keys |-> e.steno_keys, is_correction |-> e.is_correction]
            /\ now' = t
            /\ IF was_fingerspelling
               THEN /\ items' = Some(Delayed(Val(items), e.is_correction, e.translations))
                    /\ UNCHANGED <<last_stroke_time, was_fingerspelling>>
               ELSE /\ last_stroke_time' = Some(t)
                    /\ was_fingerspelling' =
                           NewWasFingerspelling(e.is_correction, e.translations)
                    /\ items' = Some(NewItems(e, t))
            /\ last' = "on_stroked_raised"
            /\ nev' = nev + 1
            /\ UNCHANGED <<host, hooked, file, log, settings, config, nstarts>>

Next ==
    \/ Start
    \/ StartConfigRaises
    \/ StartOpenRaises
    \/ Stop
    \/ StopWriteRaises
    \/ OnStroked
    \/ OnStrokedRaises

Spec == Init /\ [][Next]_vars

(***************************************************************************)
(* One event on any history.  The instance is started with the default     *)
(* configuration or with output style 'translation', and receives one      *)
(* event whose snapshot is any history of up to MaxHistory entries: the    *)
(* entries above, a space that attaches to what precedes it, and a chord   *)
(* sequence of two strokes without a raw definition.                       *)
(***************************************************************************)
MaxHistory == 3

TrSpace == Tr(<< <<"S", "-", "P">> >>, Some(<<"{", "^", " ", "^", "}">>),
              <<Act(Some(<<" ">>), FALSE, TRUE)>>, <<>>)
TrRawTwo == Tr(<< <<"K">>, <<"A", "F">> >>, None,
               <<Act(Some(<<"K", "/", "A", "F">>), FALSE, FALSE)>>, <<>>)

Entries == {TrCat, TrF, TrO, TrFo, TrRaw, TrGlue, TrSpace, TrRawTwo}

Histories == UNION { [1..n -> Entries] : n \in 0..MaxHistory }

HistoryEvents == { Ev({<<"T", "-">>}, c, ts, 30) : c \in BOOLEAN, ts \in Histories }

StyleConfigs ==
    { [file |-> "missing", fields |-> {}],
      [file |-> "object", fields |-> { <<"output_style", JStr(TRANSLATION)>> }] }

StartHistory == \E cfg \in StyleConfigs : nstarts = 0 /\ StartOn(cfg)

OnStrokedHistory == \E e \in HistoryEvents : nev = 0 /\ OnStrokedEvent(e)

NextHistory ==
    \/ StartHistory
    \/ OnStrokedHistory

SpecHistory == Init /\ [][NextHistory]_vars

(***************************************************************************)
(* The bar.  The instance is started with a time unit and a maximal width  *)
(* given as numbers (below, at and above the limits start clamps them to)  *)
(* and receives up to MaxBarEvents events, each any time from 0 to         *)
(* MaxElapsed hundredths of a second after the one before it.              *)
(***************************************************************************)
MaxBarEvents == 2
MaxElapsed == 12

BarConfigs ==
    { [file |-> "object",
       fields |-> { <<"bar_time_unit", JNum(u)>>, <<"bar_max_width", JNum(w)>> }] :
          u \in {-500, 2, 3}, w \in {-100, 0, 250, 500, 10100} }

BarEvents == { Ev({<<"S", "-">>}, FALSE, <<TrCat>>, dt) : dt \in 0..MaxElapsed }

StartBar == \E cfg \in BarConfigs : nstarts = 0 /\ StartOn(cfg)

OnStrokedBar == \E e \in BarEvents : nev < MaxBarEvents /\ OnStrokedEvent(e)

NextBar ==
    \/ StartBar
    \/ OnStrokedBar

SpecBar == Init /\ [][NextBar]_vars

(***************************************************************************)
(* The chord layout.  The instance is started with the default             *)
(* configuration and receives one event whose stroke is any set of keys of *)
(* the layout and of number keys.                                          *)
(***************************************************************************)
PressableKeys == {KEYS[i] : i \in 1..Len(KEYS)} \cup {p[2] : p \in NUMBERS}

StenoEvents == { Ev(keys, FALSE, <<TrCat>>, 30) : keys \in SUBSET PressableKeys }

StartSteno == nstarts = 0 /\ StartOn(NoConfig)

OnStrokedSteno == \E e \in StenoEvents : nev = 0 /\ OnStrokedEvent(e)

NextSteno ==
    \/ StartSteno
    \/ OnStrokedSteno

SpecSteno == Init /\ [][NextSteno]_vars

(***************************************************************************)
(* The template.  The instance is started with an output format that is    *)
(* any string of up to MaxTemplate characters over '%', 'h', 't', a space  *)
(* and a literal 'x'.                                                      *)
(***************************************************************************)
MaxTemplate == 4

TemplateChars == {"%", "h", "t", " ", "x"}

Templates == UNION { [1..n -> TemplateChars] : n \in 0..MaxTemplate }

FormatConfigs ==
    { [file |-> "object", fields |-> { <<"output_format", JStr(fmt)>> }] :
          fmt \in Templates }

StartFormat == \E cfg \in FormatConfigs : nstarts = 0 /\ StartOn(cfg)

NextFormat == StartFormat

SpecFormat == Init /\ [][NextFormat]_vars

(***************************************************************************)
(* Reading the log.                                                        *)
(***************************************************************************)
\* the positions of the writes of a site in the on_stroked call n
At(site, n) == {i \in DOMAIN log : log[i].site = site /\ log[i].call = n}

\* the field map the event n assembled, as its left segment was written with it
ItemsOf(n) == log[CHOOSE i \in At("L240", n) : TRUE].items

\* the last call was an on_stroked that returned
Stroked == last = "on_stroked"

\* the last call was an on_stroked that returned and wrote a delayed right segment
Resolved == Stroked /\ At("L141", nev) # {}

ResolvedWrite == log[CHOOSE i \in At("L141", nev) : TRUE]

\* the log ends with the right segment of the last event and a line break
EndsWithRight ==
    /\ Len(log) >= 3
    /\ log[Len(log) - 2].site = "L240" /\ log[Len(log) - 2].call = nev
    /\ log[Len(log) - 1].site = "L243" /\ log[Len(log) - 1].call = nev
    /\ log[Len(log) - 1].text = RStrip(expand(Val(settings.right_format), Val(items)))
    /\ log[Len(log)].site = "L244" /\ log[Len(log)].call = nev
    /\ log[Len(log)].text = <<"\n">>

\* the log ends with the left segment of the last event
EndsWithLeft ==
    /\ Len(log) >= 1
    /\ log[Len(log)].site = "L240" /\ log[Len(log)].call = nev
    /\ log[Len(log)].text = expand(Val(settings.left_format), Val(items))

(***************************************************************************)
(* C1.  After every on_stroked call that returns, was_fingerspelling is    *)
(* set, and the right segment of the event is not written, if and only if  *)
(* the stroke is not a correction, the snapshot is not empty and its       *)
(* newest entry is fingerspelling; otherwise the right segment and a line  *)
(* break were written in the same call.                                    *)
(***************************************************************************)
C1_Deferral ==
    Stroked =>
        LET awaiting == /\ ~stroke.is_correction
                        /\ translations # <<>>
                        /\ is_fingerspelling(Newest(translations))
        IN  /\ was_fingerspelling <=> awaiting
            /\ awaiting => EndsWithLeft /\ At("L243", nev) = {}
            /\ ~awaiting => EndsWithRight

C1_Witness ==
    /\ Stroked
    /\ was_fingerspelling
    /\ Val(items).h # <<>>
    /\ EndsWithLeft

(***************************************************************************)
(* C2, as amended.  When an event arrives while a right segment is         *)
(* withheld, the segment is written with its hint cleared if the history   *)
(* is empty, or the newest entry is fingerspelling, or the stroke is a     *)
(* correction, or the newest entry's replaced list is not empty; in every  *)
(* other case it is written with the hint computed at the previous event.  *)
(***************************************************************************)
C2_Resolution ==
    Resolved =>
        LET prev    == ItemsOf(nev - 1)
            cleared == \/ translations = <<>>
                       \/ is_fingerspelling(Newest(translations))
                       \/ stroke.is_correction
                       \/ Newest(translations).replaced # <<>>
            written == [prev EXCEPT !.h = IF cleared THEN <<>> ELSE prev.h]
        IN  /\ ResolvedWrite.items = written
            /\ ResolvedWrite.text = RStrip(expand(Val(settings.right_format), written))

\* C2 as the claim states it: cleared when the newest entry is not fingerspelling,
\* kept when it still is
C2_Original ==
    Resolved =>
        LET prev    == ItemsOf(nev - 1)
            cleared == \/ translations = <<>>
                       \/ ~is_fingerspelling(Newest(translations))
                       \/ stroke.is_correction
                       \/ Newest(translations).replaced # <<>>
            written == [prev EXCEPT !.h = IF cleared THEN <<>> ELSE prev.h]
        IN  /\ ResolvedWrite.items = written
            /\ ResolvedWrite.text = RStrip(expand(Val(settings.right_format), written))

\* a withheld segment was written with a hint that is not empty
C2_Witness ==
    /\ Resolved
    /\ ItemsOf(nev - 1).h # <<>>
    /\ ResolvedWrite.items.h = ItemsOf(nev - 1).h

(***************************************************************************)
(* C4.  A correction stroke, and a stroke with an empty snapshot, yield    *)
(* the output text '*' and an empty hint, and the right segment of the     *)
(* event is written in the same call (was_fingerspelling is not set).      *)
(***************************************************************************)
C4_Correction ==
    (Stroked /\ (stroke.is_correction \/ translations = <<>>)) =>
        /\ Val(items).t = <<"*">>
        /\ Val(items).h = <<>>
        /\ ItemsOf(nev) = Val(items)
        /\ ~was_fingerspelling
        /\ EndsWithRight

\* a correction whose snapshot ends with a fingerspelling entry
C4_Witness ==
    /\ Stroked
    /\ stroke.is_correction
    /\ translations # <<>>
    /\ is_fingerspelling(Newest(translations))
    /\ EndsWithRight

(***************************************************************************)
(* C5.  If an event follows an event whose right segment was withheld and  *)
(* the stroke is a correction, or the snapshot is empty, or the newest     *)
(* entry's replaced list is not empty, the withheld segment is written     *)
(* with an empty hint.                                                     *)
(***************************************************************************)
C5_Redacted ==
    (/\ Resolved
     /\ \/ stroke.is_correction
        \/ translations = <<>>
        \/ Newest(translations).replaced # <<>>) =>
        /\ ResolvedWrite.items.h = <<>>
        /\ ResolvedWrite.text =
               RStrip(expand(Val(settings.right_format),
                             [ItemsOf(nev - 1) EXCEPT !.h = <<>>]))

\* a hint that was not empty is redacted by an entry that replaced others
C5_Witness ==
    /\ Resolved
    /\ ~stroke.is_correction
    /\ translations # <<>>
    /\ ~is_fingerspelling(Newest(translations))
    /\ Newest(translations).replaced # <<>>
    /\ ItemsOf(nev - 1).h # <<>>
    /\ ResolvedWrite.items.h = <<>>

(***************************************************************************)
(* C7.  On stop, if a right segment is withheld (was_fingerspelling is     *)
(* set), it is written with the hint computed at the last event, followed  *)
(* by a line break, and the file is closed after that; if nothing is       *)
(* withheld, stop writes nothing.                                          *)
(***************************************************************************)
\* the positions of the writes of stop in the current lifetime
StopWrites == {i \in DOMAIN log : log[i].site \in {"L82", "L83"} /\ log[i].life = nstarts}

LifeLog ==
    LET InLife(w) == w.life = nstarts
    IN  SelectSeq(log, InLife)

\* the on_stroked calls of the current lifetime
LifeCalls == {w.call : w \in {log[i] : i \in {j \in DOMAIN log : log[j].life = nstarts
                                                               /\ log[j].site = "L240"}}}

C3_OneRecordPerEvent ==
    last = "stop" =>
        LET n     == Cardinality(LifeCalls)
            first == nev - n
        IN  /\ Len(LifeLog) = 3 * n
            /\ \A k \in 1..n :
                   LET left  == LifeLog[3 * k - 2]
                       right == LifeLog[3 * k - 1]
                       break == LifeLog[3 * k]
                   IN  /\ left.site = "L240" /\ left.call = first + k
                       /\ \/ right.site = "L243" /\ right.call = first + k
                          \/ right.site = "L141" /\ right.call = first + k + 1
                          \/ right.site = "L82" /\ k = n
                       /\ right.items \in {left.items, [left.items EXCEPT !.h = <<>>]}
                       /\ right.text =
                              RStrip(expand(Val(settings.right_format), right.items))
                       /\ break.text = <<"\n">>

\* the same statement for the first lifetime of an instance only
C3_FirstLifetime == nstarts = 1 => C3_OneRecordPerEvent

(***************************************************************************)
(* C8.  After stop, was_fingerspelling is false and last_stroke_time is    *)
(* None, so that the first event of a later lifetime writes no delayed     *)
(* right segment and has the bar of a first event.                         *)
(***************************************************************************)
C8_ClearedAtStop ==
    /\ last = "stop" => ~was_fingerspelling /\ last_stroke_time = None
    /\ (Stroked /\ LifeCalls = {nev}) =>
           /\ At("L141", nev) = {}
           /\ Val(items).b = Bar(0, Val(settings.bar_time_unit), Val(settings.bar_max_width))

(***************************************************************************)
(* C9.  start never raises because of the configuration, and each field    *)
(* takes its documented default when its value is missing or malformed.    *)
(***************************************************************************)
WellFormed(cfg, name, table) ==
    /\ cfg.file = "object"
    /\ HasField(cfg, name)
    /\ \/ Field(cfg, name).k = "num"
       \/ Field(cfg, name).k = "str" /\ Parses(table, Field(cfg, name).s)

C9_ConfigNeverFatal ==
    /\ last # "start_config_raised"
    /\ last = "start" =>
           /\ ~WellFormed(config, "bar_time_unit", FloatStrings)
                  => settings.bar_time_unit = Some(20)
           /\ ~WellFormed(config, "bar_max_width", IntStrings)
                  => settings.bar_max_width = Some(5)
           /\ ~(HasField(config, "output_style")
                    /\ Field(config, "output_style") = JStr(TRANSLATION))
                  => settings.output_style = Some("definition")
           /\ ~(HasField(config, "output_format")
                    /\ Field(config, "output_format").k = "str")
                  => /\ settings.left_format = Some(SplitFormat(DefaultOutputFormat).left)
                     /\ settings.right_format = Some(SplitFormat(DefaultOutputFormat).right)

(***************************************************************************)
(* C10.  The hook is never connected while there is no open file, and      *)
(* every call of start that raises and every call of stop ends with the    *)
(* hook disconnected and no open file.                                     *)
(***************************************************************************)
C10_SinkReleased ==
    /\ hooked => file = "open"
    /\ last \in {"start_config_raised", "start_open_raised", "stop", "stop_raised"}
           => ~hooked /\ file # "open"

(***************************************************************************)
(* C6, as amended.  Scenario B: three consecutive events that are not      *)
(* corrections and whose newest entry is fingerspelling, then a fourth     *)
(* that is not a correction and whose newest entry is a word that is not   *)
(* fingerspelling.  The right segment of each of the first three events is *)
(* withheld and written by the next event: those of the first and the      *)
(* second with their hint cleared, that of the third when the fourth event *)
(* arrives, with its hint as computed unless the word's replaced list is   *)
(* not empty.  The line of the fourth event carries the word as output     *)
(* text (after a '*' when it has more than one stroke) and is completed in *)
(* the same call.                                                          *)
(***************************************************************************)
Fingerspelled(e) ==
    /\ ~e.is_correction
    /\ e.translations # <<>>
    /\ is_fingerspelling(Newest(e.translations))

Word(e) ==
    /\ ~e.is_correction
    /\ e.translations # <<>>
    /\ ~is_fingerspelling(Newest(e.translations))

\* the last four events are those of the scenario, in one lifetime
ScenarioB ==
    /\ Stroked
    /\ nev >= 4
    /\ (nev - 3)..nev \subseteq LifeCalls
    /\ \A i \in (nev - 3)..(nev - 1) : Fingerspelled(events[i])
    /\ Word(events[nev])

\* the write of the right segment of the event i by the next event
NextWrite(i) == log[CHOOSE j \in At("L141", i + 1) : TRUE]

WordText ==
    LET word == Newest(translations)
    IN  (IF Len(word.strokes) > 1 THEN <<"*">> ELSE <<>>)
            \o SHOW_WHITESPACE(IF Val(settings.output_style) = "translation"
                               THEN retroformat(<<word>>)
                               ELSE IF word.english = None THEN <<"/">>
                                    ELSE Val(word.english))

C6_ScenarioB ==
    ScenarioB =>
        /\ \A i \in (nev - 3)..(nev - 1) :
               /\ At("L243", i) = {}
               /\ Cardinality(At("L141", i + 1)) = 1
               /\ \A j \in At("L240", i) : \A k \in At("L141", i + 1) : j < k
        /\ \A i \in (nev - 3)..(nev - 2) :
               NextWrite(i).items = [ItemsOf(i) EXCEPT !.h = <<>>]
        /\ NextWrite(nev - 1).items =
               IF Newest(translations).replaced # <<>>
               THEN [ItemsOf(nev - 1) EXCEPT !.h = <<>>]
               ELSE ItemsOf(nev - 1)
        /\ ItemsOf(nev).t = WordText
        /\ EndsWithRight

\* C6 as the claim states it: the three right segments are written only when the
\* fourth event arrives, each with its hint as computed
C6_Original ==
    ScenarioB =>
        /\ \A i \in (nev - 3)..(nev - 1) :
               /\ At("L243", i) = {}
               /\ \A j \in DOMAIN log :
                      (log[j].site = "L141" /\ log[j].call = i + 1) =>
                          /\ \A k \in At("L240", nev) : k < j
                          /\ log[j].items = ItemsOf(i)
        /\ ItemsOf(nev).t = WordText
        /\ EndsWithRight

\* the hints of the first and the third event are not empty, and that of the
\* third reaches the log
C6_Witness ==
    /\ ScenarioB
    /\ ItemsOf(nev - 3).h # <<>>
    /\ ItemsOf(nev - 1).h # <<>>
    /\ NextWrite(nev - 3).items.h = <<>>
    /\ NextWrite(nev - 1).items.h = ItemsOf(nev - 1).h

(***************************************************************************)
(* C11.  If the newest entry of the snapshot is whitespace-only (every     *)
(* formatting action has no text, or only whitespace text), the event      *)
(* looks no suggestions up and its hint is empty, whatever the older       *)
(* entries are and whether or not the newest entry is fingerspelling.      *)
(***************************************************************************)
C11_NoLookupOnWhitespace ==
    (Stroked /\ translations # <<>> /\ is_whitespace(Newest(translations))) =>
        /\ ScanWindows(translations) = <<>>
        /\ Val(items).h = <<>>
        /\ ItemsOf(nev).h = <<>>

\* the newest entry is whitespace-only and fingerspelling, and the entries
\* before it alone would have a hint
C11_Witness ==
    /\ Stroked
    /\ ~stroke.is_correction
    /\ Len(translations) >= 2
    /\ is_whitespace(Newest(translations))
    /\ is_fingerspelling(Newest(translations))
    /\ Suggestions(FALSE, SubSeq(translations, 1, Len(translations) - 1)) # <<>>
    /\ Val(items).h = <<>>

(***************************************************************************)
(* C12, as amended.  With output style 'definition', for an event that is  *)
(* not a correction and whose newest entry has no raw definition, the      *)
(* output text is '/' when the entry has one stroke, and '*' followed by   *)
(* '/' when it has more than one.                                          *)
(***************************************************************************)
NoRawDefinition ==
    /\ Stroked
    /\ settings.output_style = Some("definition")
    /\ ~stroke.is_correction
    /\ translations # <<>>
    /\ Newest(translations).english = None

C12_Placeholder ==
    NoRawDefinition =>
        LET text == IF Len(Newest(translations).strokes) > 1
                    THEN <<"*", "/">> ELSE <<"/">>
        IN  /\ Val(items).t = text
            /\ ItemsOf(nev).t = text

\* C12 as the claim states it: '/' for every stroke count of the entry
C12_Original ==
    NoRawDefinition => Val(items).t = <<"/">> /\ ItemsOf(nev).t = <<"/">>

\* an entry of two strokes without a raw definition
C12_Witness ==
    /\ NoRawDefinition
    /\ Len(Newest(translations).strokes) = 2
    /\ Val(items).t = <<"*", "/">>

(***************************************************************************)
(* C13.  Every outline in a tier has strictly fewer strokes than the       *)
(* window of that tier has in total (the sum of the chord counts of its    *)
(* entries): of the outlines the engine offers for the window, exactly     *)
(* those with fewer strokes are kept, in the order offered, and the hint   *)
(* is rendered from the kept ones only.                                    *)
(***************************************************************************)
\* the event looked suggestions up
LookedUp == Stroked /\ ~stroke.is_correction /\ translations # <<>>

\* the outlines the engine offers for a window, and the strokes of the window
Offered(window) ==
    LET found == EngineGetSuggestions(retroformat(window))
    IN  Concat([i \in 1..Len(found) |-> found[i].steno_list])

StrokeCount(window) == Len(Concat([j \in 1..Len(window) |-> window[j].rtfcre]))

C13_StrictlyShorter ==
    LookedUp =>
        LET windows == ScanWindows(translations)
            lists   == SuggestionLists(translations)
        IN  /\ Len(lists) = Len(windows)
            /\ \A i \in 1..Len(windows) :
                   LET Kept(outline) == Len(outline) < StrokeCount(windows[i])
                   IN  /\ \A k \in 1..Len(lists[i]) : Kept(lists[i][k])
                       /\ lists[i] = SelectSeq(Offered(windows[i]), Kept)
            /\ Val(items).h = RenderSuggestions(lists)

\* the engine offers, for one window, a shorter outline and one as long as the
\* window, and for another window a longer one; the hint shows the shorter one
C13_Witness ==
    /\ LookedUp
    /\ Val(items).h # <<>>
    /\ LET windows == ScanWindows(translations)
       IN  /\ \E i \in 1..Len(windows) :
                  LET offered == Offered(windows[i])
                  IN  /\ \E k \in 1..Len(offered) :
                             Len(offered[k]) < StrokeCount(windows[i])
                      /\ \E k \in 1..Len(offered) :
                             Len(offered[k]) = StrokeCount(windows[i])
           /\ \E i \in 1..Len(windows) :
                  \E k \in 1..Len(Offered(windows[i])) :
                      Len(Offered(windows[i])[k]) > StrokeCount(windows[i])

(***************************************************************************)
(* C17.  Every window passed to a suggestion lookup is a non-empty suffix  *)
(* of the snapshot, in the snapshot's order (oldest entry first; a         *)
(* buffered fingerspelling run is spliced in that order), and each window  *)
(* of an event is longer than the one before it.                           *)
(***************************************************************************)
Suffix(ts, n) == SubSeq(ts, Len(ts) - n + 1, Len(ts))

C17_Windows ==
    LookedUp =>
        LET windows == ScanWindows(translations)
        IN  /\ \A i \in 1..Len(windows) :
                   /\ windows[i] # <<>>
                   /\ Len(windows[i]) <= Len(translations)
                   /\ windows[i] = Suffix(translations, Len(windows[i]))
            /\ \A i \in 1..(Len(windows) - 1) : Len(windows[i]) < Len(windows[i + 1])

\* a word and a run of two different letters after it: the run is the first
\* window, the whole snapshot the second
C17_Witness ==
    /\ LookedUp
    /\ Len(translations) = 3
    /\ ~is_fingerspelling(translations[1])
    /\ is_fingerspelling(translations[2])
    /\ is_fingerspelling(translations[3])
    /\ translations[2] # translations[3]
    /\ ScanWindows(translations) = << <<translations[2], translations[3]>>, translations >>

(***************************************************************************)
(* C18.  The tiers are numbered from 1 in the order of the lookups, and a  *)
(* tier without results is left out without renumbering the others: the    *)
(* hint is the tiers that have results, in increasing number, joined by    *)
(* single spaces, the tier of lookup i being i times '>' followed by its   *)
(* outlines (strokes joined by '/', outlines by spaces).                   *)
(***************************************************************************)
\* the outlines of one tier, as text
TierBody(outlines) ==
    Join(<<" ">>, [k \in 1..Len(outlines) |-> Join(<<"/">>, outlines[k])])

\* the hint of the lookups 1..n
RECURSIVE TiersUpTo(_, _)
TiersUpTo(lists, n) ==
    IF n = 0 THEN <<>>
    ELSE LET before == TiersUpTo(lists, n - 1)
         IN  IF lists[n] = <<>> THEN before
             ELSE before \o (IF before = <<>> THEN <<>> ELSE <<" ">>)
                         \o Repeat(">", n) \o TierBody(lists[n])

\* the lengths of the maximal runs of '>' in a text
MarkerRuns(h) ==
    { j - i + 1 : <<i, j>> \in
        { p \in (1..Len(h)) \X (1..Len(h)) :
            /\ p[1] <= p[2]
            /\ \A k \in p[1]..p[2] : h[k] = ">"
            /\ (p[1] = 1 \/ h[p[1] - 1] # ">")
            /\ (p[2] = Len(h) \/ h[p[2] + 1] # ">") } }

C18_TierNumbers ==
    LookedUp =>
        LET lists == SuggestionLists(translations)
            h     == Val(items).h
        IN  /\ h = TiersUpTo(lists, Len(lists))
            /\ MarkerRuns(h) = {i \in 1..Len(lists) : lists[i] # <<>>}
            /\ ItemsOf(nev).h = h

\* the first lookup has no results and the second has: the hint is its tier,
\* with two markers
C18_Witness ==
    /\ LookedUp
    /\ LET lists == SuggestionLists(translations)
       IN  /\ Len(lists) = 2
           /\ lists[1] = <<>>
           /\ lists[2] # <<>>
           /\ Val(items).h = <<">", ">">> \o TierBody(lists[2])

(***************************************************************************)
(* C14.  The bar of an event is min(floor(elapsed / time_unit), max_width) *)
(* markers, right-justified in a field of exactly max_width characters,    *)
(* where elapsed is 0 for the first event and the time since the previous  *)
(* event otherwise; so the number of markers does not decrease as elapsed  *)
(* grows, never exceeds max_width, and is 0 on the first event, for every  *)
(* time unit of at least 0.01 s and every maximal width from 0 to 100.     *)
(***************************************************************************)
Elapsed == IF nev = 1 THEN 0 ELSE events[nev].dt

Markers(b) == Cardinality({k \in 1..Len(b) : b[k] = "+"})

C14_Bar ==
    Stroked =>
        LET unit  == Val(settings.bar_time_unit)
            width == Val(settings.bar_max_width)
            b     == Val(items).b
            n     == IF Elapsed \div unit < width THEN Elapsed \div unit ELSE width
        IN  /\ unit >= 1
            /\ width \in 0..100
            /\ Len(b) = width
            /\ \A k \in 1..width : b[k] = IF k <= width - n THEN " " ELSE "+"
            /\ Markers(b) = n
            /\ Markers(b) <= width
            /\ nev = 1 => Markers(b) = 0
            /\ \A sooner \in 0..Elapsed :
                   Markers(Bar(sooner, unit, width)) <= Markers(b)
            /\ ItemsOf(nev).b = b

\* a second event after more than max_width time units: the bar is full
C14_Witness ==
    /\ Stroked
    /\ nev = 2
    /\ Val(settings.bar_max_width) = 5
    /\ Elapsed \div Val(settings.bar_time_unit) > 5
    /\ Val(items).b = <<"+", "+", "+", "+", "+">>

(***************************************************************************)
(* C15.  The chord layout has one position per key slot, in the order of   *)
(* the slots: the letter of the slot if the slot is pressed, or is the     *)
(* letter slot of a pressed number key, or is the number-key slot and a    *)
(* number key is pressed; a space otherwise.  A number key itself is never *)
(* rendered, and an empty stroke gives spaces only.                        *)
(***************************************************************************)
\* the letter of a key slot: its name without the dashes
LetterOf(slot) == CHOOSE c \in {slot[j] : j \in 1..Len(slot)} : c # "-"

NumberKeys == {p[2] : p \in NUMBERS}

\* the slot is shown for the pressed keys
Shown(slot, pressed) ==
    \/ slot \in pressed
    \/ \E p \in NUMBERS : p[2] \in pressed /\ (slot = p[1] \/ slot = NUMBER_KEY)

C15_Layout ==
    Stroked =>
        LET pressed == stroke.steno_keys
            steno   == Val(items).s
        IN  /\ Len(steno) = Len(KEYS)
            /\ \A i \in 1..Len(KEYS) :
                   steno[i] = IF Shown(KEYS[i], pressed) THEN LetterOf(KEYS[i]) ELSE " "
            /\ \A i \in 1..Len(steno) :
                   \A key \in NumberKeys : steno[i] # LetterOf(key)
            /\ pressed = {} => \A i \in 1..Len(steno) : steno[i] = " "
            /\ ItemsOf(nev).s = steno

\* a number key alone: its letter slot and the number-key slot are shown
C15_Witness ==
    /\ Stroked
    /\ stroke.steno_keys = {<<"-", "9">>}
    /\ Val(items).s = <<"#", " ", " ", " ", " ", "T">>

(***************************************************************************)
(* C19.  Splitting the template does not change what it expands to: for    *)
(* every template made of the placeholders %b, %s, %t, %h, %% and literal  *)
(* characters, and every field map, the expansion of the left segment      *)
(* followed by that of the right segment is the expansion of the template. *)
(* The right segment starts with the whitespace before the first %h        *)
(* placeholder (never at an 'h' that follows the escape %%), and is empty  *)
(* when the template has no %h placeholder.                                *)
(***************************************************************************)
Placeholders == {"b", "s", "t", "h", "%"}

\* the template is a sequence of placeholders and literal characters
RECURSIVE IsTemplate(_)
IsTemplate(fmt) ==
    IF fmt = <<>> THEN TRUE
    ELSE IF fmt[1] = "%"
         THEN /\ Len(fmt) >= 2
              /\ fmt[2] \in Placeholders
              /\ IsTemplate(SubSeq(fmt, 3, Len(fmt)))
    ELSE IsTemplate(Tail(fmt))

\* the position of the first placeholder %h at or after position i, 0 if none
RECURSIVE FirstHint(_, _)
FirstHint(fmt, i) ==
    IF i > Len(fmt) THEN 0
    ELSE IF fmt[i] = "%"
         THEN IF i < Len(fmt) /\ fmt[i + 1] = "h" THEN i ELSE FirstHint(fmt, i + 2)
    ELSE FirstHint(fmt, i + 1)

FieldMaps ==
    { [b |-> <<"+">>, s |-> <<"S">>, t |-> <<"c">>, h |-> hint, pct |-> <<"%">>] :
          hint \in { <<>>, <<">", "K">> } }

C19_SplitKeepsExpansion ==
    (last = "start" /\ IsTemplate(OutputFormatOf(config))) =>
        LET fmt   == OutputFormatOf(config)
            left  == Val(settings.left_format)
            right == Val(settings.right_format)
            hint  == FirstHint(fmt, 1)
        IN  /\ left \o right = fmt
            /\ \A its \in FieldMaps : expand(left, its) \o expand(right, its) = expand(fmt, its)
            /\ hint = 0 => right = <<>>
            /\ hint > 0 =>
                   /\ Len(left) < hint
                   /\ \A k \in (Len(left) + 1)..(hint - 1) : fmt[k] \in Whitespace
                   /\ (left = <<>> \/ left[Len(left)] \notin Whitespace)

\* the same for the templates in which no 'h' follows the escape %%
RECURSIVE NoEscapedH(_)
NoEscapedH(fmt) ==
    IF Len(fmt) < 2 THEN TRUE
    ELSE IF fmt[1] = "%"
         THEN ~(fmt[2] = "%" /\ Len(fmt) >= 3 /\ fmt[3] = "h")
                 /\ NoEscapedH(SubSeq(fmt, 3, Len(fmt)))
    ELSE NoEscapedH(Tail(fmt))

C19_WithoutEscapedH == NoEscapedH(OutputFormatOf(config)) => C19_SplitKeepsExpansion

(***************************************************************************)
(* C16.  In a run of consecutive events that are not corrections and whose *)
(* newest entry is fingerspelling, no event writes its own right segment,  *)
(* and the right segment of an event that is followed by another event of  *)
(* the run is written by that event with an empty hint.  An event writes   *)
(* the withheld segment with a hint that is not empty only if it is not a  *)
(* correction, its snapshot is not empty, and its newest entry is neither  *)
(* fingerspelling nor has replaced anything; otherwise only stop writes a  *)
(* withheld hint.                                                          *)
(***************************************************************************)
C16_RunRedacted ==
    /\ \A i \in DOMAIN log :
           log[i].site = "L243" => ~Fingerspelled(events[log[i].call])
    /\ \A i \in DOMAIN log :
           log[i].site = "L141" =>
               LET n == log[i].call
               IN  /\ n >= 2
                   /\ Fingerspelled(events[n - 1])
                   /\ Fingerspelled(events[n]) =>
                          log[i].items = [ItemsOf(n - 1) EXCEPT !.h = <<>>]
                   /\ log[i].items.h # <<>> =>
                          /\ Word(events[n])
                          /\ Newest(events[n].translations).replaced = <<>>
                          /\ log[i].items = ItemsOf(n - 1)

\* two events of a run: the hint of the first was not empty and was written
\* empty by the second
C16_Witness ==
    \E i \in DOMAIN log :
        /\ log[i].site = "L141"
        /\ Fingerspelled(events[log[i].call])
        /\ ItemsOf(log[i].call - 1).h # <<>>
        /\ log[i].items.h = <<>>

(***************************************************************************)
(* C20.  Whenever was_fingerspelling is set, the field map (self.items)    *)
(* has been assigned by an earlier on_stroked, so the delayed write of     *)
(* on_stroked and the flush of stop never read a field map that does not   *)
(* exist; a stop right after the first start, without events, reads none   *)
(* and writes nothing.                                                     *)
(***************************************************************************)
C20_FieldMapExists ==
    /\ was_fingerspelling => items # None /\ nev >= 1
    /\ nev = 0 => ~was_fingerspelling /\ log = <<>>
    /\ \A i \in DOMAIN log :
           log[i].site \in {"L141", "L82"} =>
               \E j \in 1..(i - 1) :
                   /\ log[j].site = "L240"
                   /\ log[i].items \in {log[j].items, [log[j].items EXCEPT !.h = <<>>]}

\* a stop in a second lifetime without events: the flag of the first
\* lifetime is still set and the flush reads the field map of its last event
C20_Witness ==
    /\ last = "stop"
    /\ nstarts = 2
    /\ LifeCalls = {}
    /\ was_fingerspelling
    /\ items # None
    /\ log[Len(log) - 1].site = "L82"
    /\ log[Len(log) - 1].items = Val(items)

=============================================================================
